---- MODULE Spec2Model ----
(***************************************************************************)
(* Prodhub: the Order Ledger (src/app/transactions.py) and the Session     *)
(* Authority (src/app/user.py) over the relational store.                  *)
(*                                                                         *)
(* Every request runs on one pooled connection (src/app/database.py): the  *)
(* statements of a handler write into the connection's open transaction,   *)
(* which is committed when the handler returns and rolled back when it     *)
(* raises.  A connection's uncommitted writes are kept as an overlay       *)
(* (w_stock, w_hdr, w_sales) over the committed tables; a written row is   *)
(* locked by its writer until the connection commits or rolls back.        *)
(***************************************************************************)
EXTENDS Integers, Sequences, FiniteSets, TLC

\* ---------------------------------------------------------------- bounds
NumProducts == 2
MaxStock == 2
MaxItems == 2
MaxTx == 1
MaxAmount == 2
NumConns == 2
MaxNow == 10
NumValues == 6

\* ------------------------------------------------------- program constants
\* login_user refuses when count(*) > TokenLimit
TokenLimit == 5
\* expires = datetime.now() + timedelta(hours=10)
TokenTTL == 10

\* ------------------------------------------------------------------- data
\* Optional values (pydantic "X | None", SQL NULL): <<>> is None, <<v>> is v.
None == <<>>
Some(v) == <<v>>

Products == 1..NumProducts
\* a product id with no row in products
MissingProduct == NumProducts + 1
ProductIds == Products \cup {MissingProduct}
\* products.price, not changed by the ledger
ProductPrice(p) == 10 * p

\* the events table: one row; MissingEvent references no row
Events == {1}
MissingEvent == Cardinality(Events) + 1
Users == {1, 2}
PaymentMethod == {"Cash", "Card"}
TxIds == 1..MaxTx
\* a transaction id that was never issued
MissingTx == MaxTx + 1

\* CreateSaleSchema: product_id: int, amount: int, price: float | None
\* (no validator: amount may be zero or negative)
Amounts == {-1} \cup (1..MaxAmount)
Prices == {None}
CreateSaleSchema == [product_id : ProductIds, amount : Amounts, price : Prices]

\* the line items the requests carry: one unit of every product id, and every
\* amount (the negative one too) of product 1
LineItems == {s \in CreateSaleSchema : s.amount = 1 \/ s.product_id = 1}

\* all sequences over S of length at most n
RECURSIVE SeqsUpTo(_, _)
SeqsUpTo(S, n) ==
    IF n = 0 THEN {<<>>}
    ELSE LET shorter == SeqsUpTo(S, n - 1)
         IN shorter \cup {Append(s, x) : s \in {t \in shorter : Len(t) = n - 1}, x \in S}

SaleLists == SeqsUpTo(LineItems, MaxItems)

\* ------------------------------------------------------ schema constraints
\* a products table without the constraint
StockCheck_Off(v) == TRUE

\* products.stock is guarded by a non-negativity constraint at the storage
\* boundary: an update that would leave stock < 0 raises IntegrityError.
StockCheck(v) == v >= 0

\* sales.amount is an integer > 0: an insert with amount <= 0 raises IntegrityError.
SaleAmountCheck(a) == a > 0

\* transactions.event_id references events: NULL or an existing event.
EventFk(e) == e = None \/ e[1] \in Events

VARIABLES stock, transactions, sales, nextId, tokens, now, conns, resp

vars == <<stock, transactions, sales, nextId, tokens, now, conns, resp>>

\* the committed tables, as one value
Db == [stock |-> stock, transactions |-> transactions, sales |-> sales,
       nextId |-> nextId, tokens |-> tokens, now |-> now]

Conns == 1..NumConns

\* a connection with no request on it
IdleConn ==
    [pc |-> "idle", op |-> "none", token |-> 0, user |-> 0, tid |-> 0, flag |-> FALSE,
     event_id |-> None, payment_method |-> None, sales |-> None,
     i |-> 1, data |-> <<>>,
     w_stock |-> <<>>, w_hdr |-> <<>>, w_sales |-> <<>>,
     status |-> 0, detail |-> 0, at |-> 0, stmt |-> "none",
     waiting |-> FALSE, waited |-> FALSE, stale |-> FALSE]

\* ---------------------------------------------- a connection's view of rows
\* READ COMMITTED: a statement sees the committed rows and the connection's
\* own uncommitted writes.
VStock(c, db, p) == IF p \in DOMAIN c.w_stock THEN c.w_stock[p] ELSE db.stock[p]

VHdr(c, db, t) ==
    IF t \in DOMAIN c.w_hdr THEN c.w_hdr[t]
    ELSE IF t \in DOMAIN db.transactions THEN Some(db.transactions[t])
    ELSE None

VSales(c, db, t) ==
    IF t \in DOMAIN c.w_sales THEN c.w_sales[t]
    ELSE IF t \in DOMAIN db.sales THEN db.sales[t]
    ELSE <<>>

\* overwrite one key of a partial function
Put(f, k, v) == [x \in (DOMAIN f) \cup {k} |-> IF x = k THEN v ELSE f[x]]

\* ------------------------------------------------------------- exceptions
\* the handler raises: the response carries the status, the 409's detail names
\* a product id; "stmt" and "at" keep the statement and the loop index the
\* handler had reached
Raise(c, status, detail) ==
    [c EXCEPT !.pc = "fail", !.status = status, !.detail = detail, !.at = c.i,
              !.stmt = c.pc]

Goto(c, pc) == [c EXCEPT !.pc = pc, !.i = 1]

\* --------------------------------------------------------------- statements
\* "update products set stock = stock + delta where product_id = p": the row
\* count and whether the stock constraint rejected the new value
UpdateStock(c, db, p, delta) ==
    IF p \notin Products
    THEN [c |-> c, rowcount |-> 0, error |-> FALSE]
    ELSE LET v == VStock(c, db, p) + delta
         IN IF StockCheck(v)
            THEN [c |-> [c EXCEPT !.w_stock = Put(@, p, v)], rowcount |-> 1, error |-> FALSE]
            ELSE [c |-> c, rowcount |-> 0, error |-> TRUE]

\* an insert that takes the product's price whatever the line item says
SaleRow_ProductPrice(sale) ==
    [product_id |-> sale.product_id, amount |-> sale.amount,
     price |-> ProductPrice(sale.product_id)]

\* "insert into sales (...) values (%s, %s, %s, coalesce(%s, (select price from
\* products where product_id = %s)))": the row inserted for a line item
SaleRow(sale) ==
    [product_id |-> sale.product_id, amount |-> sale.amount,
     price |-> IF sale.price = None THEN ProductPrice(sale.product_id) ELSE sale.price[1]]

InsertSale(c, db, sale) ==
    IF SaleAmountCheck(sale.amount)
    THEN [c |-> [c EXCEPT !.w_sales = Put(@, c.tid, Append(VSales(c, db, c.tid), SaleRow(sale)))],
          error |-> FALSE]
    ELSE [c |-> c, error |-> TRUE]

\* a delete that reports the rows and leaves them stored
DeleteSales_Keep(c, db) == [c EXCEPT !.data = VSales(c, db, c.tid)]

\* "delete from sales where transaction_id = %s returning product_id, amount".
\* A delete that waited for the rows while their holder replaced them and
\* committed (stale) finds its rows gone and does not see the new ones.
DeleteSales(c, db) ==
    IF c.stale THEN [c EXCEPT !.data = <<>>, !.stale = FALSE]
    ELSE [c EXCEPT !.data = VSales(c, db, c.tid), !.w_sales = Put(@, c.tid, <<>>)]

\* a stored token would validate whatever its expiry
ValidTokens_Stored(db, value) == {t \in db.tokens : t.value = value}

\* a token would still validate at the instant of its expiry
ValidTokens_AtExpiry(db, value) == {t \in db.tokens : t.value = value /\ t.expires >= db.now}

\* ----------------------------------------------------------------- handlers
\* get_user_bearer: the token row with this value that has not expired
ValidTokens(db, value) == {t \in db.tokens : t.value = value /\ t.expires > db.now}

get_user_bearer(c, db) ==
    IF ValidTokens(db, c.token) = {}
    THEN Raise(c, 403, 0)
    ELSE LET t == CHOOSE t \in ValidTokens(db, c.token) : TRUE
         IN [c EXCEPT !.user = t.user_id,
                      !.pc = CASE c.op = "create" -> "c_dec"
                               [] c.op = "delete" -> "d_del"
                               [] c.op = "update" -> "u_hdr"
                               [] OTHER -> "done"]

\* a handler that blames the first line item of the request, whichever failed
NotEnough_First(c, sale) == Raise(c, 409, c.sales[1][1].product_id)

\* except IntegrityError: raise HTTPException(409, f"Not enough product
\* {sale.product_id}"), the line item the loop is at
NotEnough(c, sale) == Raise(c, 409, sale.product_id)

\* one statement of create_transaction
create_transaction(c, db) ==
    CASE c.pc = "c_dec" ->
           LET sale == c.sales[1][c.i]
               r == UpdateStock(c, db, sale.product_id, 0 - sale.amount)
           IN IF r.error THEN NotEnough(c, sale)
              \* raise app.products.not_found_err: app.products defines no such
              \* name, so the raise itself fails with AttributeError
              ELSE IF r.rowcount = 0 THEN Raise(c, 500, 0)
              ELSE [r.c EXCEPT !.i = @ + 1]
      [] c.pc = "c_hdr" ->
           \* an event id that references no event: IntegrityError, then
           \* raise app.events.not_found_err, which app.events does not define
           IF ~EventFk(c.event_id) THEN Raise(c, 500, 0)
           ELSE [c EXCEPT !.tid = db.nextId, !.pc = "c_ins", !.i = 1,
                          !.w_hdr = Put(@, db.nextId,
                                        Some([user_id |-> c.user, event_id |-> c.event_id,
                                              payment_method |-> c.payment_method[1]]))]
      [] c.pc = "c_ins" ->
           LET r == InsertSale(c, db, c.sales[1][c.i])
           IN IF r.error THEN Raise(c, 500, 0) ELSE [r.c EXCEPT !.i = @ + 1]

\* one statement of delete_transaction (flag is return_products)
delete_transaction(c, db) ==
    CASE c.pc = "d_del" ->
           LET d == DeleteSales(c, db)
           IN IF Len(d.data) = 0 THEN Raise(c, 404, 0)
              ELSE IF c.flag THEN Goto(d, "d_ret") ELSE Goto(d, "d_hdr")
      [] c.pc = "d_ret" ->
           LET row == c.data[c.i]
               r == UpdateStock(c, db, row.product_id, row.amount)
           IN IF r.error THEN Raise(c, 500, 0) ELSE [r.c EXCEPT !.i = @ + 1]
      [] c.pc = "d_hdr" ->
           [c EXCEPT !.w_hdr = Put(@, c.tid, None), !.pc = "done", !.status = 204]

\* coalesce(%s, column)
Coalesce(x, old) == IF x = None THEN old ELSE x[1]

\* an update that never gives the removed amounts back
ReturnsRemoved_Never(c) == FALSE

\* an update that gives the removed amounts back even when forced
ReturnsRemoved_Always(c) == TRUE

\* "if not force": the removed Sales' amounts go back to stock
ReturnsRemoved(c) == ~c.flag

\* one statement of update_transaction (flag is force)
update_transaction(c, db) ==
    CASE c.pc = "u_hdr" ->
           LET h == VHdr(c, db, c.tid)
           IN IF h = None THEN Raise(c, 404, 0)
              ELSE IF ~EventFk(c.event_id) THEN Raise(c, 500, 0)
              ELSE [c EXCEPT !.pc = "u_del",
                             !.w_hdr = Put(@, c.tid,
                                 Some([user_id |-> h[1].user_id,
                                       event_id |-> IF c.event_id = None THEN h[1].event_id
                                                    ELSE c.event_id,
                                       payment_method |-> Coalesce(c.payment_method,
                                                                   h[1].payment_method)]))]
      [] c.pc = "u_del" ->
           LET d == DeleteSales(c, db)
           IN IF ReturnsRemoved(c) THEN Goto(d, "u_ret") ELSE Goto(d, "u_dec")
      [] c.pc = "u_ret" ->
           LET row == c.data[c.i]
               r == UpdateStock(c, db, row.product_id, row.amount)
           IN IF r.error THEN Raise(c, 500, 0) ELSE [r.c EXCEPT !.i = @ + 1]
      [] c.pc = "u_dec" ->
           LET sale == c.sales[1][c.i]
               r == UpdateStock(c, db, sale.product_id, 0 - sale.amount)
           IN IF r.error THEN Raise(c, 409, sale.product_id)
              ELSE IF r.rowcount = 0 THEN Raise(c, 500, 0)
              ELSE [r.c EXCEPT !.i = @ + 1]
      [] c.pc = "u_ins" ->
           LET r == InsertSale(c, db, c.sales[1][c.i])
           IN IF r.error THEN Raise(c, 500, 0) ELSE [r.c EXCEPT !.i = @ + 1]

\* leave a loop whose sequence is exhausted ("for sale in body.sales" over None
\* raises TypeError)
RECURSIVE LoopExit(_)
LoopExit(c) ==
    CASE c.pc \in {"u_dec"} /\ c.sales = None -> Raise(c, 500, 0)
      [] c.pc = "c_dec" /\ c.i > Len(c.sales[1]) -> LoopExit(Goto(c, "c_hdr"))
      [] c.pc = "c_ins" /\ c.i > Len(c.sales[1]) -> [c EXCEPT !.pc = "done", !.status = 201]
      [] c.pc = "d_ret" /\ c.i > Len(c.data) -> LoopExit(Goto(c, "d_hdr"))
      [] c.pc = "u_ret" /\ c.i > Len(c.data) -> LoopExit(Goto(c, "u_dec"))
      [] c.pc = "u_dec" /\ c.i > Len(c.sales[1]) -> LoopExit(Goto(c, "u_ins"))
      [] c.pc = "u_ins" /\ c.i > Len(c.sales[1]) -> [c EXCEPT !.pc = "done", !.status = 200]
      [] OTHER -> c

\* the next statement of the request on connection record c
Step(c, db) ==
    LoopExit(CASE c.pc = "auth" -> get_user_bearer(c, db)
               [] c.op = "create" -> create_transaction(c, db)
               [] c.op = "delete" -> delete_transaction(c, db)
               [] c.op = "update" -> update_transaction(c, db))

Finished(c) == c.pc \in {"done", "fail"}

\* the transactions sequence is not transactional: the header insert draws an id
\* whether or not the request commits
NextIdAfter(c, db) == IF c.pc = "c_hdr" /\ EventFk(c.event_id) THEN db.nextId + 1 ELSE db.nextId

\* the handler run to its end with no other connection active
RECURSIVE Run(_, _)
Run(c, db) ==
    IF Finished(c) THEN [c |-> c, nextId |-> db.nextId]
    ELSE Run(Step(c, db), [db EXCEPT !.nextId = NextIdAfter(c, db)])

\* ------------------------------------------------------------- connections
\* a connection that commits whatever the handler did
Commits_Always(c) == TRUE

\* a connection that rolls back only on an unexpected exception, and commits
\* when the handler raised an HTTPException
Commits_OnHttpError(c) == c.pc = "done" \/ c.status \in {404, 409}

\* get_conn: "async with db_pool.connection() as conn: yield conn" commits the
\* connection's transaction when the handler returned and rolls it back when the
\* handler raised
Commits(c) == c.pc = "done"

\* the committed tables after the connection's writes are committed
CommitStock(c, db) == [p \in Products |-> VStock(c, db, p)]

CommitTransactions(c, db) ==
    LET ids == {t \in (DOMAIN db.transactions) \cup (DOMAIN c.w_hdr) : VHdr(c, db, t) # None}
    IN [t \in ids |-> VHdr(c, db, t)[1]]

CommitSales(c, db) ==
    LET ids == {t \in (DOMAIN db.sales) \cup (DOMAIN c.w_sales) : VSales(c, db, t) # <<>>}
    IN [t \in ids |-> VSales(c, db, t)]

\* the row of the view get_all_transactions for transaction t as connection c
\* sees it: the header with its Sales in insertion order
TxView(c, db, t) ==
    LET h == VHdr(c, db, t)[1]
    IN [transaction_id |-> t, user |-> h.user_id, event |-> h.event_id,
        payment_method |-> h.payment_method, sales |-> VSales(c, db, t)]

\* get_transaction: "select ... from get_all_transactions where transaction_id
\* = %s", 404 on rowcount 0, else the row
get_transaction(c, db, t) ==
    IF VHdr(c, db, t) = None THEN [status |-> 404, body |-> None]
    ELSE [status |-> 200, body |-> Some(TxView(c, db, t))]

\* "return await get_transaction(transaction_id, conn)": what create and update
\* answer with, read on the handler's own connection before it commits
Returned(c, db) ==
    IF c.pc = "done" /\ c.op \in {"create", "update"} THEN get_transaction(c, db, c.tid).body
    ELSE None

\* a request as it reaches the handler
Begin(req) ==
    [IdleConn EXCEPT !.pc = "auth", !.op = req.op, !.token = req.token, !.tid = req.tid,
                     !.flag = req.flag, !.event_id = req.event_id,
                     !.payment_method = req.payment_method, !.sales = req.sales]

\* products and amounts of two lists agree, whatever the order
SameItems(xs, ys) ==
    /\ Len(xs) = Len(ys)
    /\ \A p \in ProductIds, a \in Amounts :
          Cardinality({k \in 1..Len(xs) : xs[k].product_id = p /\ xs[k].amount = a})
            = Cardinality({k \in 1..Len(ys) : ys[k].product_id = p /\ ys[k].amount = a})

\* what the client is answered, with what the request did: the statement it
\* failed at, how many Sales it removed, whether its line items repeat them
Response(c) ==
    [op |-> c.op, user |-> c.user, status |-> c.status, detail |-> c.detail, at |-> c.at,
     stmt |-> c.stmt, tid |-> c.tid, flag |-> c.flag, waited |-> c.waited,
     removed |-> Len(c.data),
     same |-> c.sales # None /\ SameItems(c.sales[1], c.data),
     token |-> 0, body |-> None]

NoResponse ==
    [op |-> "none", user |-> 0, status |-> 0, detail |-> 0, at |-> 0, stmt |-> "none", tid |-> 0,
     flag |-> FALSE, waited |-> FALSE, removed |-> 0, same |-> FALSE, token |-> 0,
     body |-> None]

\* ---------------------------------------------------------------- requests
\* bearer values presented with a request: 1 is stored and valid, 2 is stored
\* and expired, 3 is not stored
TokenValues == {1, 2, 3}
LedgerTokens == {[user_id |-> 1, value |-> 1, expires |-> TokenTTL],
                 [user_id |-> 2, value |-> 2, expires |-> 0]}
GoodToken == CHOOSE v \in TokenValues : \E t \in LedgerTokens : t.value = v /\ t.expires > 0

EventIds == {None, Some(1), Some(MissingEvent)}

\* a request whose token does not validate never reaches the handler: one body
\* stands for all of them
CreateRequests ==
    [op : {"create"}, token : {GoodToken}, tid : {0}, flag : {FALSE},
     event_id : EventIds, payment_method : {Some(m) : m \in PaymentMethod},
     sales : {Some(l) : l \in SaleLists}]
    \cup [op : {"create"}, token : TokenValues, tid : {0}, flag : {FALSE},
          event_id : {None}, payment_method : {Some("Cash")}, sales : {Some(<<>>)}]

DeleteRequests ==
    [op : {"delete"}, token : TokenValues, tid : TxIds \cup {MissingTx}, flag : BOOLEAN,
     event_id : {None}, payment_method : {None}, sales : {None}]

UpdateRequests ==
    [op : {"update"}, token : {GoodToken}, tid : TxIds \cup {MissingTx}, flag : BOOLEAN,
     event_id : EventIds, payment_method : {None, Some("Card")},
     sales : {None} \cup {Some(l) : l \in SaleLists}]
    \cup [op : {"update"}, token : TokenValues, tid : TxIds, flag : {FALSE},
          event_id : {None}, payment_method : {None}, sales : {Some(<<>>)}]

\* ------------------------------------------------ one request at a time
\* the committed tables and the response after the whole request has run on db:
\* the handler's statements, then get_conn's commit or rollback
After(req, db) ==
    LET fin == Run(Begin(req), db)
        c == fin.c
    IN [stock |-> IF Commits(c) THEN CommitStock(c, db) ELSE db.stock,
        transactions |-> IF Commits(c) THEN CommitTransactions(c, db) ELSE db.transactions,
        sales |-> IF Commits(c) THEN CommitSales(c, db) ELSE db.sales,
        nextId |-> fin.nextId, tokens |-> db.tokens, now |-> db.now,
        resp |-> [Response(c) EXCEPT !.body = Returned(c, db)]]

Handle(req) ==
    \E a \in {After(req, Db)} :
       /\ stock' = a.stock
       /\ transactions' = a.transactions
       /\ sales' = a.sales
       /\ nextId' = a.nextId
       /\ resp' = a.resp
       /\ UNCHANGED <<tokens, now, conns>>

\* requests for a transaction id that has no header all end at the handler's first
\* statement: one of them stands for them all
Relevant(req) == req.tid \in DOMAIN transactions \/ (req.event_id = None /\ req.sales = None)

CreateTransaction == \E req \in CreateRequests : nextId <= MaxTx /\ Handle(req)
\* of the ids never issued, the first stands for them all
DeleteTransaction == \E req \in DeleteRequests : req.tid <= nextId /\ Handle(req)
UpdateTransaction == \E req \in UpdateRequests : Relevant(req) /\ Handle(req)

Init ==
    /\ stock \in [Products -> 0..MaxStock]
    /\ transactions = <<>>
    /\ sales = <<>>
    /\ nextId = 1
    /\ tokens = LedgerTokens
    /\ now = 0
    /\ conns = [r \in Conns |-> IdleConn]
    /\ resp = NoResponse

Next == CreateTransaction \/ DeleteTransaction \/ UpdateTransaction

Spec == Init /\ [][Next]_vars

\* ------------------------------------------------------- session authority
\* get_user_basic: the user the credentials belong to; NoUser stands for a wrong
\* username or password
NoUser == Cardinality(Users) + 1

\* the values secrets.token_hex can draw
Values == 1..NumValues

\* tokens.value is unique: an insert of a stored value raises UniqueViolation
TokenValueUnique(db, v) == \A t \in db.tokens : t.value # v

\* "select count(*) from tokens where user_id = %s"
CountTokens(db, u) == Cardinality({t \in db.tokens : t.user_id = u})

\* a login that lets one more token through
LimitExceeded_OneMore(n) == n > TokenLimit + 1

\* "if (await cur.fetchone())[0] > 5"
LimitExceeded(n) == n > TokenLimit

\* login_user for user u, secrets.token_hex drawing v: the tokens table and the
\* answer.  A UniqueViolation reaches "finally", whose fetchone has no result to
\* return: the request ends in a server error and stores nothing.
login_user(u, v, db) ==
    IF u \notin Users THEN [tokens |-> db.tokens, status |-> 401]
    ELSE IF LimitExceeded(CountTokens(db, u)) THEN [tokens |-> db.tokens, status |-> 403]
    ELSE IF ~TokenValueUnique(db, v) THEN [tokens |-> db.tokens, status |-> 500]
    ELSE [tokens |-> db.tokens \cup {[user_id |-> u, value |-> v,
                                       expires |-> db.now + TokenTTL]},
          status |-> 201]

\* a logout that deletes every token of the bearer
logout_ByUser(c, db) == {t \in db.tokens : t.user_id # c.user}

\* logout: "delete from tokens where value = %s" with the bearer's own value
logout(c, db) == {t \in db.tokens : t.value # c.token}

\* logout_all: "delete from tokens where user_id = %s"
logout_all(c, db) == {t \in db.tokens : t.user_id # c.user}

\* a bearer request of the session authority after get_user_bearer
Bearer(op, v, db) == get_user_bearer([IdleConn EXCEPT !.pc = "auth", !.op = op, !.token = v], db)

AuthResponse(op, u, status) == [NoResponse EXCEPT !.op = op, !.user = u, !.status = status]

\* the answer to a bearer request that presented value v: the user
\* get_user_bearer returned, 403 when it raised, ok when the handler returned
BearerResponse(c, v, ok) ==
    [AuthResponse(c.op, c.user, IF c.pc = "fail" THEN c.status ELSE ok) EXCEPT !.token = v]

\* token_hex draws the lowest value not stored, or collides with a stored one
Stored == {t.value : t \in tokens}
Draws == {v \in Values : v \in Stored \/ \A w \in Values : w < v => w \in Stored}

LoginUser ==
    \E u \in Users \cup {NoUser}, v \in Draws :
       \E a \in {login_user(u, v, Db)} :
          /\ tokens' = a.tokens
          /\ resp' = AuthResponse("login", u, a.status)
          /\ UNCHANGED <<stock, transactions, sales, nextId, now, conns>>

Logout ==
    \E v \in Values :
       \E c \in {Bearer("logout", v, Db)} :
          /\ tokens' = IF c.pc = "fail" THEN tokens ELSE logout(c, Db)
          /\ resp' = BearerResponse(c, v, 204)
          /\ UNCHANGED <<stock, transactions, sales, nextId, now, conns>>

LogoutAll ==
    \E v \in Values :
       \E c \in {Bearer("logout_all", v, Db)} :
          /\ tokens' = IF c.pc = "fail" THEN tokens ELSE logout_all(c, Db)
          /\ resp' = BearerResponse(c, v, 204)
          /\ UNCHANGED <<stock, transactions, sales, nextId, now, conns>>

\* get_user: "return user", the row get_user_bearer selected
GetUser ==
    \E v \in Values :
       \E c \in {Bearer("get_user", v, Db)} :
          /\ resp' = BearerResponse(c, v, 200)
          /\ UNCHANGED <<stock, transactions, sales, nextId, tokens, now, conns>>

\* the instants at which requests arrive: the start, and each instant at which
\* the tokens issued one lifetime earlier have just expired
Instants == {t \in 0..MaxNow : t % TokenTTL = 0}

\* the clock of the store ("now()", datetime.now()) moves on to a later instant
Tick ==
    /\ now' \in {t \in Instants : t > now}
    /\ resp' = AuthResponse("tick", 0, 0)
    /\ UNCHANGED <<stock, transactions, sales, nextId, tokens, conns>>

InitAuth ==
    /\ stock = [p \in Products |-> 0]
    /\ transactions = <<>>
    /\ sales = <<>>
    /\ nextId = 1
    /\ tokens = {}
    /\ now = 0
    /\ conns = [r \in Conns |-> IdleConn]
    /\ resp = NoResponse

NextAuth == LoginUser \/ GetUser \/ Logout \/ LogoutAll \/ Tick

SpecAuth == InitAuth /\ [][NextAuth]_vars

\* ------------------------------------------------- the ledger's five routes
\* a price given with a line item, different from every product's price
ExplicitPrice == ProductPrice(NumProducts) + 1

\* line items with a price of their own and with amounts that are not positive
LedgerItems ==
    {s \in [product_id : Products, amount : {-1, 0, 1}, price : {None, Some(ExplicitPrice)}] :
        /\ s.price = None \/ s.amount = 1
        /\ s.product_id = 1 \/ (s.amount = 1 /\ s.price = None)}

LedgerLists == SeqsUpTo(LedgerItems, MaxItems)

\* the bearer values of TokenValues, and 0 for a request without a bearer
\* header, which HTTPBearer refuses as get_user_bearer refuses an unknown value
Presented == TokenValues \cup {0}

LedgerCreates ==
    [op : {"create"}, token : {GoodToken}, tid : {0}, flag : {FALSE},
     event_id : {None, Some(1)}, payment_method : {Some("Cash")},
     sales : {Some(l) : l \in LedgerLists}]
    \cup [op : {"create"}, token : Presented, tid : {0}, flag : {FALSE},
          event_id : {None}, payment_method : {Some("Card")},
          sales : {Some(<<l>>) : l \in {x \in LedgerItems : x.price = None /\ x.amount = 1}}]

LedgerDeletes ==
    [op : {"delete"}, token : Presented, tid : TxIds \cup {MissingTx}, flag : {TRUE},
     event_id : {None}, payment_method : {None}, sales : {None}]

LedgerUpdates ==
    [op : {"update"}, token : {GoodToken}, tid : TxIds, flag : {FALSE},
     event_id : {None}, payment_method : {None},
     sales : {Some(l) : l \in LedgerLists}]
    \cup [op : {"update"}, token : {GoodToken}, tid : TxIds, flag : {TRUE},
          event_id : {Some(1)}, payment_method : {Some("Card")},
          sales : {Some(<<l>>) : l \in {x \in LedgerItems : x.price = None /\ x.amount = 1}}]
    \cup [op : {"update"}, token : Presented, tid : TxIds \cup {MissingTx}, flag : {FALSE},
          event_id : {None}, payment_method : {Some("Card")}, sales : {Some(<<>>)}]

LedgerCreate == \E req \in LedgerCreates : nextId <= MaxTx /\ Handle(req)
LedgerDelete == \E req \in LedgerDeletes : req.tid <= nextId /\ Handle(req)
LedgerUpdate == \E req \in LedgerUpdates : req.tid <= nextId /\ Handle(req)

\* GET /transactions/{transaction_id} with bearer value v: the answer
GetOutcome(v, t, db) ==
    LET c == Bearer("get", v, db)
        r == get_transaction(c, db, t)
    IN [BearerResponse(c, v, r.status) EXCEPT
          !.tid = t, !.body = IF c.pc = "fail" THEN None ELSE r.body]

GetTransaction ==
    \E v \in Presented, t \in TxIds \cup {MissingTx} :
       /\ t <= nextId
       /\ resp' = GetOutcome(v, t, Db)
       /\ UNCHANGED <<stock, transactions, sales, nextId, tokens, now, conns>>

\* the query parameters of TransactionQuery that select rows
Filters == {"start", "finish", "user_id", "event_id", "payment_method"}

TransactionQuery ==
    [start : {None, Some(-1)}, finish : {None, Some(1)},
     user_id : {None, Some(1)}, event_id : {None, Some(1)},
     payment_method : {None, Some("Cash")}]

\* "if body.start: ... if body.payment_method:" the filters that add a clause
Supplied(q) == {f \in Filters : q[f] # None}

\* the headers of the model are all inserted at the store's instant 0
TimeOf(h) == 0

\* the condition one clause puts on a row of the view
Matches(q, f, h) ==
    CASE f = "start" -> TimeOf(h) > q.start[1]
      [] f = "finish" -> TimeOf(h) < q.finish[1]
      [] f = "user_id" -> h.user_id = q.user_id[1]
      [] f = "event_id" -> h.event_id = q.event_id
      [] f = "payment_method" -> h.payment_method = q.payment_method[1]

\* get_all_transactions: every supplied filter appends a clause of its own that
\* begins with "where", and " ".join(query) is executed.  With two clauses the
\* statement reads "... where a where b", which the store rejects as a syntax
\* error.  The rows of a statement that runs are selected without "sales" and
\* built as TransactionQuery objects (class_row(TransactionQuery)), which do
\* not validate as the response model list[TransactionSchema]: only the empty
\* list is ever answered.
get_all_transactions(q, db) ==
    IF Cardinality(Supplied(q)) > 1 THEN [status |-> 500, rows |-> {}]
    ELSE LET rows == {t \in DOMAIN db.transactions :
                        \A f \in Supplied(q) : Matches(q, f, db.transactions[t])}
         IN IF rows # {} THEN [status |-> 500, rows |-> {}]
            ELSE [status |-> 200, rows |-> rows]

\* GET /transactions/ with bearer value v and query q: the answer
ListOutcome(v, q, db) ==
    LET c == Bearer("list", v, db)
        r == get_all_transactions(q, db)
    IN [BearerResponse(c, v, r.status) EXCEPT
          !.body = IF c.pc = "fail" \/ r.status # 200 THEN None ELSE Some(r.rows)]

\* a request whose token does not validate never reaches the handler: one query
\* stands for all of them
ListTransactions ==
    \E v \in Presented, q \in TransactionQuery :
       /\ v = GoodToken \/ Supplied(q) = {}
       /\ resp' = ListOutcome(v, q, Db)
       /\ UNCHANGED <<stock, transactions, sales, nextId, tokens, now, conns>>

InitLedger ==
    /\ stock = [p \in Products |-> MaxStock]
    /\ transactions = <<>>
    /\ sales = <<>>
    /\ nextId = 1
    /\ tokens = LedgerTokens
    /\ now = 0
    /\ conns = [r \in Conns |-> IdleConn]
    /\ resp = NoResponse

NextLedger == LedgerCreate \/ LedgerDelete \/ LedgerUpdate \/ GetTransaction \/ ListTransactions

SpecLedger == InitLedger /\ [][NextLedger]_vars

\* ------------------------------------------- requests running side by side
\* the row the connection's next statement has to lock: a product row for an
\* "update products", the header for an update or delete of it, the Sales of
\* the transaction for "delete from sales"
Needs(c) ==
    CASE c.pc \in {"c_dec", "u_dec"} ->
           IF c.sales[1][c.i].product_id \in Products
           THEN Some(<<"product", c.sales[1][c.i].product_id>>) ELSE None
      [] c.pc \in {"d_ret", "u_ret"} -> Some(<<"product", c.data[c.i].product_id>>)
      [] c.pc \in {"u_hdr", "d_hdr"} -> Some(<<"header", c.tid>>)
      [] c.pc \in {"d_del", "u_del"} -> Some(<<"sales", c.tid>>)
      [] OTHER -> None

\* a store without row locks
Holds_Nothing(c, row, db) == FALSE

\* the connection's open transaction has written the row, which stays locked
\* until it commits or rolls back (rows it inserted are not visible to others)
Holds(c, row, db) ==
    CASE row[1] = "product" -> row[2] \in DOMAIN c.w_stock
      [] row[1] = "header" -> row[2] \in DOMAIN c.w_hdr /\ row[2] \in DOMAIN db.transactions
      [] row[1] = "sales" -> row[2] \in DOMAIN c.w_sales /\ row[2] \in DOMAIN db.sales

BlockedBy(r, q) ==
    /\ q # r
    /\ ~Finished(conns[r])
    /\ Needs(conns[r]) # None
    /\ Holds(conns[q], Needs(conns[r])[1], Db)

Blocked(r) == \E q \in Conns : BlockedBy(r, q)

Active(r) == conns[r].pc # "idle" /\ ~Finished(conns[r])

\* line items of the requests that run side by side
ConcItems == {s \in LineItems : s.product_id \in Products /\ s.amount > 0}
ConcLists == {l \in SeqsUpTo(ConcItems, MaxItems) :
                 /\ Len(l) >= 1
                 /\ \A j, k \in 1..Len(l) :
                       j # k => l[j].product_id # l[k].product_id /\ l[j].amount = 1}
ConcTxIds == TxIds

ConcRequests ==
    [op : {"create"}, token : {GoodToken}, tid : {0}, flag : {FALSE},
     event_id : {None}, payment_method : {Some("Cash")},
     sales : {Some(l) : l \in ConcLists}]
    \cup [op : {"delete"}, token : {GoodToken}, tid : ConcTxIds, flag : BOOLEAN,
          event_id : {None}, payment_method : {None}, sales : {None}]
    \cup [op : {"update"}, token : {GoodToken}, tid : ConcTxIds, flag : BOOLEAN,
          event_id : {None}, payment_method : {None},
          sales : {Some(l) : l \in ConcLists}]

\* creates that have not drawn their id yet
PendingCreates ==
    Cardinality({r \in Conns : conns[r].op = "create" /\ conns[r].pc \in {"auth", "c_dec", "c_hdr"}})

\* a request arrives on a free connection and its bearer token is resolved
StartRequest(r) ==
    /\ conns[r].pc = "idle"
    /\ \E req \in ConcRequests :
          /\ req.op = "create" => nextId + PendingCreates <= MaxTx + 1
          /\ req.op # "create" => req.tid < nextId
          /\ conns' = [conns EXCEPT ![r] = Step(Begin(req), Db)]
    /\ UNCHANGED <<stock, transactions, sales, nextId, tokens, now, resp>>

\* the connection's next statement runs
Exec(r) ==
    /\ Active(r)
    /\ ~Blocked(r)
    /\ conns' = [conns EXCEPT ![r] = [Step(conns[r], Db) EXCEPT !.waiting = FALSE]]
    /\ nextId' = NextIdAfter(conns[r], Db)
    /\ UNCHANGED <<stock, transactions, sales, tokens, now, resp>>

\* the connection's next statement is issued while another connection holds
\* the row: it waits
Wait(r) ==
    /\ Active(r)
    /\ Blocked(r)
    /\ ~conns[r].waiting
    /\ conns' = [conns EXCEPT ![r].waiting = TRUE, ![r].waited = TRUE]
    /\ UNCHANGED <<stock, transactions, sales, nextId, tokens, now, resp>>

\* two connections wait for each other: the store aborts one of them with
\* DeadlockDetected, which no handler catches
DeadlockAbort(r) ==
    /\ conns[r].waiting
    /\ \E q \in Conns : BlockedBy(r, q) /\ conns[q].waiting /\ BlockedBy(q, r)
    /\ conns' = [conns EXCEPT ![r] = [Raise(conns[r], 500, 0) EXCEPT !.waiting = FALSE]]
    /\ UNCHANGED <<stock, transactions, sales, nextId, tokens, now, resp>>

\* a "delete from sales" of connection q that waits for rows c has replaced
WaitsForSalesOf(q, c, db) ==
    /\ conns[q].waiting
    /\ conns[q].pc \in {"d_del", "u_del"}
    /\ Holds(c, <<"sales", conns[q].tid>>, db)

\* a pool that does not take back the connection of a request that raised
Release_NotOnError(c) ==
    IF c.pc = "fail" THEN [IdleConn EXCEPT !.pc = "fail", !.status = c.status] ELSE IdleConn

\* leaving "async with db_pool.connection()" returns the connection to the pool
Release(c) == IdleConn

\* get_conn leaves "async with db_pool.connection()": commit when the handler
\* returned, rollback when it raised
Finish(r) ==
    /\ Finished(conns[r])
    /\ \E c \in {conns[r]} :
          /\ stock' = IF Commits(c) THEN CommitStock(c, Db) ELSE stock
          /\ transactions' = IF Commits(c) THEN CommitTransactions(c, Db) ELSE transactions
          /\ sales' = IF Commits(c) THEN CommitSales(c, Db) ELSE sales
          /\ conns' = [q \in Conns |->
                          IF q = r THEN Release(c)
                          ELSE IF Commits(c) /\ WaitsForSalesOf(q, c, Db)
                               THEN [conns[q] EXCEPT !.stale = TRUE]
                          ELSE conns[q]]
    /\ UNCHANGED <<nextId, tokens, now, resp>>

InitConc ==
    /\ stock = [p \in Products |-> MaxStock]
    /\ transactions = <<>>
    /\ sales = <<>>
    /\ nextId = 1
    /\ tokens = LedgerTokens
    /\ now = 0
    /\ conns = [r \in Conns |-> IdleConn]
    /\ resp = NoResponse

NextConc ==
    \E r \in Conns :
       StartRequest(r) \/ Exec(r) \/ Wait(r) \/ DeadlockAbort(r) \/ Finish(r)

SpecConc == InitConc /\ [][NextConc]_vars

\* ------------------------------------- requests that give amounts back
\* create, update with force = false and delete with return_products = true
ReturningRequests ==
    {req \in ConcRequests : (req.op = "delete" => req.flag) /\ (req.op = "update" => ~req.flag)}

\* such a request arrives on a free connection and its bearer token is resolved
StartReturning(r) ==
    /\ conns[r].pc = "idle"
    /\ \E req \in ReturningRequests :
          /\ req.op = "create" => nextId + PendingCreates <= MaxTx + 1
          /\ req.op # "create" => req.tid < nextId
          /\ conns' = [conns EXCEPT ![r] = Step(Begin(req), Db)]
    /\ UNCHANGED <<stock, transactions, sales, nextId, tokens, now, resp>>

NextReturn ==
    \E r \in Conns :
       StartReturning(r) \/ Exec(r) \/ Wait(r) \/ DeadlockAbort(r) \/ Finish(r)

SpecReturn == InitConc /\ [][NextReturn]_vars

\* ------------------------------------------------- logins side by side
\* each login runs on a connection of its own: the count, then the insert, then
\* get_conn's commit.  A statement sees the committed tokens only.
LoginValues == 1..(TokenLimit + NumConns + 1)

\* the values of inserts that are not committed yet
PendingValues == {conns[r].token : r \in {q \in Conns : conns[q].pc = "done"}}

\* token_hex draws the lowest value no connection has used, or collides with a
\* committed one
LoginDraws ==
    {v \in LoginValues :
        \/ v \in Stored
        \/ /\ v \notin PendingValues
           /\ \A w \in LoginValues : w < v => w \in Stored \cup PendingValues}

\* "select count(*) from tokens where user_id = %s" and the test of the limit
login_count(c, db) ==
    IF LimitExceeded(CountTokens(db, c.user)) THEN Raise(c, 403, 0)
    ELSE [c EXCEPT !.pc = "l_ins", !.i = CountTokens(db, c.user)]

\* the insert of the value drawn: the loop ends after it, stored or not
login_insert(c, v, db) ==
    IF ~TokenValueUnique(db, v) THEN Raise(c, 500, 0)
    ELSE [c EXCEPT !.pc = "done", !.status = 201, !.token = v]

\* POST /user/login arrives with the credentials of user u
LoginStart(r) ==
    /\ conns[r].pc = "idle"
    /\ \E u \in Users :
          conns' = [conns EXCEPT ![r] = [IdleConn EXCEPT !.pc = "l_count", !.op = "login",
                                                         !.user = u]]
    /\ UNCHANGED <<stock, transactions, sales, nextId, tokens, now, resp>>

LoginCount(r) ==
    /\ conns[r].pc = "l_count"
    /\ conns' = [conns EXCEPT ![r] = login_count(conns[r], Db)]
    /\ UNCHANGED <<stock, transactions, sales, nextId, tokens, now, resp>>

LoginInsert(r) ==
    /\ conns[r].pc = "l_ins"
    /\ \E v \in LoginDraws : conns' = [conns EXCEPT ![r] = login_insert(conns[r], v, Db)]
    /\ UNCHANGED <<stock, transactions, sales, nextId, tokens, now, resp>>

\* get_conn leaves the connection block: the inserted token is committed when
\* the handler returned
LoginFinish(r) ==
    /\ Finished(conns[r])
    /\ \E c \in {conns[r]} :
          /\ tokens' = IF Commits(c)
                        THEN tokens \cup {[user_id |-> c.user, value |-> c.token,
                                           expires |-> now + TokenTTL]}
                        ELSE tokens
          /\ conns' = [conns EXCEPT ![r] = Release(c)]
    /\ UNCHANGED <<stock, transactions, sales, nextId, now, resp>>

InitLogin ==
    /\ stock = [p \in Products |-> 0]
    /\ transactions = <<>>
    /\ sales = <<>>
    /\ nextId = 1
    /\ tokens = {}
    /\ now = 0
    /\ conns = [r \in Conns |-> IdleConn]
    /\ resp = NoResponse

NextLogin ==
    \E r \in Conns : LoginStart(r) \/ LoginCount(r) \/ LoginInsert(r) \/ LoginFinish(r)

SpecLogin == InitLogin /\ [][NextLogin]_vars

\* ------------------------------------------------------------- properties
\* units of product p in a list of line items or Sales rows
RECURSIVE Qty(_, _)
Qty(rows, p) ==
    IF rows = <<>> THEN 0
    ELSE (IF Head(rows).product_id = p THEN Head(rows).amount ELSE 0) + Qty(Tail(rows), p)

\* the Sales of transaction t in the committed store
SalesOf(t) == IF t \in DOMAIN sales THEN sales[t] ELSE <<>>

\* the request leaves stock, headers and Sales as they are
StoreUnchanged(a) ==
    /\ a.stock = stock
    /\ a.transactions = transactions
    /\ a.sales = sales

\* the index of the first line item, taken in request order, whose amount
\* exceeds what the earlier line items leave of its product; 0 when every line
\* item is covered or an earlier one names no product
RECURSIVE FirstShort(_, _, _)
FirstShort(items, k, left) ==
    IF k > Len(items) \/ items[k].product_id \notin Products THEN 0
    ELSE IF items[k].amount > left[items[k].product_id] THEN k
    ELSE FirstShort(items, k + 1,
                    [left EXCEPT ![items[k].product_id] = @ - items[k].amount])

\* C1: in every committed state reachable by any sequence and any interleaving
\* of create, update (forced or not) and delete (returning products or not)
\* requests, every product's stock is >= 0.
C1_StockNeverNegative == \A p \in Products : stock[p] >= 0

\* an update that waited for a product row was refused for that product, whose
\* committed stock the other requests have brought to 0
C1_Witness ==
    \E r \in Conns :
       /\ conns[r].op = "update"
       /\ conns[r].pc = "fail"
       /\ conns[r].status = 409
       /\ conns[r].waited
       /\ stock[conns[r].detail] = 0

\* C2: a create_transaction that does not succeed, whatever the step it fails
\* at, leaves stock, transaction headers and Sales exactly as they were.
C2_FailedCreateChangesNothing ==
    \A req \in CreateRequests :
       \A a \in {After(req, Db)} : a.resp.status # 201 => StoreUnchanged(a)

\* a create failed at its second line item, after the first one's decrement
C2_Witness ==
    /\ resp.op = "create"
    /\ resp.status = 500
    /\ resp.stmt = "c_dec"
    /\ resp.at = 2

\* connection r commits or rolls back in this step
Finishes(r) == Finished(conns[r]) /\ conns'[r].pc = "idle"

\* C3: of create_transaction requests that run concurrently against a product
\* and together ask for more than its stock, at most as many commit as the
\* stock covers: every create that commits lowers the committed stock of each
\* product by exactly its own amounts and never below 0, and a create that
\* does not commit leaves the committed stock as it is.
C3_ConcurrentCreatesNeverOversell ==
    [][\A r \in Conns :
          (Finishes(r) /\ conns[r].op = "create")
            => \A p \in Products :
                  /\ stock'[p] >= 0
                  /\ stock'[p] = stock[p] - (IF conns[r].status = 201
                                             THEN Qty(conns[r].sales[1], p) ELSE 0)]_vars

\* a create waited for a product row held by another create, which committed
\* its Sales; the waiting create, which the stock before would have covered,
\* was then refused for that product
C3_Witness ==
    \E r \in Conns :
       /\ conns[r].op = "create"
       /\ conns[r].pc = "fail"
       /\ conns[r].status = 409
       /\ conns[r].waited
       /\ \E t \in DOMAIN sales :
             /\ transactions[t].user_id = conns[r].user
             /\ Qty(sales[t], conns[r].detail) > 0
             /\ Qty(conns[r].sales[1], conns[r].detail)
                   <= stock[conns[r].detail] + Qty(sales[t], conns[r].detail)
             /\ Qty(conns[r].sales[1], conns[r].detail) > stock[conns[r].detail]

\* C4: when a line item of a create asks for more than the stock that is left,
\* the request is answered 409, the detail names the product of the first such
\* line item in request order, and no stock changes.
C4_ConflictNamesFirstShortItem ==
    \A req \in CreateRequests :
       \A k \in {FirstShort(req.sales[1], 1, stock)} :
          (req.token = GoodToken /\ k # 0)
            => \A a \in {After(req, Db)} :
                  /\ a.resp.status = 409
                  /\ a.resp.detail = req.sales[1][k].product_id
                  /\ a.stock = stock

\* a create refused at its second line item, which names product 2
C4_Witness ==
    /\ resp.op = "create"
    /\ resp.status = 409
    /\ resp.at = 2
    /\ resp.detail = 2

\* C5: a create_transaction that succeeded, followed by delete_transaction of
\* the id it returned with return_products = true, puts every product's stock
\* back to its value before the create and removes the header and every Sale.
\* (The stock before the create is the stock after it plus the created Sales.)
C5_CreateThenDeleteRestores ==
    [][(/\ resp.op = "create" /\ resp.status = 201
        /\ resp'.op = "delete" /\ resp'.tid = resp.tid /\ resp'.flag
        /\ resp'.status # 403)
         => (/\ resp.tid \notin DOMAIN transactions'
             /\ resp.tid \notin DOMAIN sales'
             /\ \A p \in Products :
                   stock'[p] = stock[p] + Qty(SalesOf(resp.tid), p))]_vars

\* C6: update_transaction with force = false and line items equal to the
\* transaction's current Sales succeeds and leaves every product's stock as it
\* was, even when a product's stock is below the amount of its line item.
C6_UpdateSameItemsKeepsStock ==
    \A req \in UpdateRequests :
       (/\ req.token = GoodToken
        /\ ~req.flag
        /\ req.tid \in DOMAIN transactions
        /\ EventFk(req.event_id)
        /\ req.sales # None
        /\ SameItems(req.sales[1], SalesOf(req.tid)))
         => \A a \in {After(req, Db)} : a.resp.status = 200 /\ a.stock = stock

\* such an update succeeded while a product's stock was below its line item
C6_Witness ==
    /\ resp.op = "update"
    /\ resp.status = 200
    /\ ~resp.flag
    /\ resp.same
    /\ \E k \in 1..Len(SalesOf(resp.tid)) :
          SalesOf(resp.tid)[k].amount > stock[SalesOf(resp.tid)[k].product_id]

\* C7: update_transaction with force = true that succeeds leaves every
\* product's stock at its value before the call minus the new line items'
\* amounts; the same call with force = false succeeds too and leaves the stock
\* higher by exactly the amounts of the Sales the update removed.
C7_ForcedUpdateKeepsRemovedAmounts ==
    \A req \in UpdateRequests :
       \A a \in {After(req, Db)} :
          (req.token = GoodToken /\ req.flag /\ a.resp.status = 200)
            => /\ \A p \in Products : a.stock[p] = stock[p] - Qty(req.sales[1], p)
               /\ \A b \in {After([req EXCEPT !.flag = FALSE], Db)} :
                     /\ b.resp.status = 200
                     /\ \A p \in Products :
                           b.stock[p] - a.stock[p] = Qty(SalesOf(req.tid), p)

\* a forced update that removed Sales and wrote new ones has succeeded
C7_Witness ==
    /\ resp.op = "update"
    /\ resp.status = 200
    /\ resp.flag
    /\ resp.removed > 0
    /\ SalesOf(resp.tid) # <<>>

\* C8: an update_transaction that does not succeed, whatever the step it fails
\* at, leaves stock, transaction headers and Sales exactly as they were.
C8_FailedUpdateChangesNothing ==
    \A req \in UpdateRequests :
       \A a \in {After(req, Db)} : a.resp.status # 200 => StoreUnchanged(a)

\* an update failed at a decrement, after it had rewritten the header, removed
\* the Sales and given their amounts back
C8_Witness ==
    /\ resp.op = "update"
    /\ resp.status = 409
    /\ resp.stmt = "u_dec"
    /\ ~resp.flag
    /\ resp.removed > 0

\* the tokens of user u that have not expired
UserValid(u, tk, t) == {x \in tk : x.user_id = u /\ x.expires > t}

\* a value token_hex can draw that is not stored
FreshValue == NumValues + 1

\* C9: with logins executed one at a time, a login attempted while the user
\* holds 5 valid (non-expired) tokens fails with 403 and creates no token, so a
\* user never holds more than 5 valid tokens right after an issuance.  (A login
\* whose drawn value collides with a stored one is left aside.)
C9_LoginRefusedAtFiveValidTokens ==
    [][(resp'.op = "login" /\ resp'.status # 500)
         => /\ Cardinality(UserValid(resp'.user, tokens, now)) = TokenLimit
                 => (resp'.status = 403 /\ tokens' = tokens)
            /\ tokens' # tokens
                 => Cardinality(UserValid(resp'.user, tokens', now')) <= TokenLimit]_vars

\* a token of user u passes its expiry in this step, its row staying stored
Expires(u) ==
    /\ tokens' = tokens
    /\ \E x \in tokens : x.user_id = u /\ x.expires > now /\ x.expires <= now'

\* a token of user u is revoked by logout in this step
Revoked(u) ==
    /\ resp'.op = "logout"
    /\ resp'.status = 204
    /\ \E x \in tokens \ tokens' : x.user_id = u

\* C10: only non-expired tokens count toward the session limit: when a login
\* of a user was refused with 403 and then one of the user's tokens passes its
\* expiry or is revoked by logout, the next login of that user succeeds.
C10_LoginSucceedsAfterExpiryOrLogout ==
    [][(resp.op = "login" /\ resp.status = 403 /\ (Expires(resp.user) \/ Revoked(resp.user)))
         => login_user(resp.user, FreshValue, [tokens |-> tokens', now |-> now']).status = 201]_vars

\* the part of C10 that is about logout alone
C10_LoginSucceedsAfterLogout ==
    [][(resp.op = "login" /\ resp.status = 403 /\ Revoked(resp.user))
         => login_user(resp.user, FreshValue, [tokens |-> tokens', now |-> now']).status = 201]_vars

\* C11: get_user_bearer answers 403 exactly when no token with the presented
\* value is stored or the stored one expires at or before the current time;
\* otherwise it succeeds with the user owning the token; either way the tokens
\* table is as it was, an expired row included.
C11_BearerValidatesUnexpiredStoredTokens ==
    [][resp'.op = "get_user" =>
          /\ tokens' = tokens
          /\ LET rows == {t \in tokens : t.value = resp'.token}
             IN IF rows = {} \/ \A t \in rows : t.expires <= now
                THEN resp'.status = 403 /\ resp'.user = 0
                ELSE resp'.status = 200 /\ \E t \in rows : resp'.user = t.user_id]_vars

\* a token presented at the very instant of its expiry is refused and stays stored
C11_Witness ==
    /\ resp.op = "get_user" /\ resp.status = 403
    /\ \E t \in tokens : t.value = resp.token /\ t.expires = now

\* C12: a login that passed the credential and limit checks retries the insert
\* with fresh values until one is stored: it always ends by returning a token it
\* persisted, and never ends after one insert that hit a uniqueness conflict.
C12_LoginRetriesUntilPersisted ==
    [][(/\ resp'.op = "login"
        /\ resp'.user \in Users
        /\ ~LimitExceeded(CountTokens(Db, resp'.user)))
          => /\ resp'.status = 201
             /\ \E t \in tokens' \ tokens : t.user_id = resp'.user]_vars

\* the Sale a line item stands for: its price when it carries one, the
\* product's price otherwise
Resolved(item) ==
    [product_id |-> item.product_id, amount |-> item.amount,
     price |-> IF item.price = None THEN ProductPrice(item.product_id) ELSE item.price[1]]

\* C13: a get_transaction on the id a successful create_transaction returned,
\* right after it, answers 200 with the object create answered with: the
\* creating user, the event and payment method of the request, and its line
\* items in order with their amounts and prices, a missing price resolved to
\* the product's price and a supplied price kept.
C13_GetReturnsWhatCreateReturned ==
    \A req \in LedgerCreates :
       LET a == After(req, Db)
           g == GetOutcome(GoodToken, a.resp.tid, a)
       IN a.resp.status = 201 =>
             /\ g.status = 200
             /\ g.body = a.resp.body
             /\ g.body # None
             /\ g.body[1].user = a.resp.user
             /\ g.body[1].event = req.event_id
             /\ g.body[1].payment_method = req.payment_method[1]
             /\ g.body[1].sales = [k \in 1..Len(req.sales[1]) |-> Resolved(req.sales[1][k])]

\* a get answers with a transaction holding a Sale at a supplied price and a
\* Sale at its product's price
C13_Witness ==
    /\ resp.op = "get" /\ resp.status = 200 /\ resp.body # None
    /\ \E k \in 1..Len(resp.body[1].sales) : resp.body[1].sales[k].price = ExplicitPrice
    /\ \E k \in 1..Len(resp.body[1].sales) :
          resp.body[1].sales[k].price = ProductPrice(resp.body[1].sales[k].product_id)

\* the bearer value is that of a stored token that has not expired
Validates(v) == \E t \in tokens : t.value = v /\ t.expires > now

\* C14: list, get, create, delete and update run only for a request whose
\* token validates at that moment: a request with a missing, unknown, revoked
\* or expired token is answered 403 and changes no stock, header or Sale.
C14_LedgerRequiresValidToken ==
    /\ \A req \in LedgerCreates \cup LedgerDeletes \cup LedgerUpdates :
          ~Validates(req.token) =>
             LET a == After(req, Db)
             IN /\ a.resp.status = 403
                /\ a.stock = stock /\ a.transactions = transactions /\ a.sales = sales
    /\ \A v \in Presented :
          ~Validates(v) =>
             /\ \A t \in TxIds \cup {MissingTx} :
                   GetOutcome(v, t, Db).status = 403 /\ GetOutcome(v, t, Db).body = None
             /\ \A q \in TransactionQuery :
                   ListOutcome(v, q, Db).status = 403 /\ ListOutcome(v, q, Db).body = None

\* a delete of a stored transaction was refused for its token, and the
\* transaction is still there with its Sales
C14_Witness ==
    /\ resp.op = "delete" /\ resp.status = 403
    /\ resp.tid \in DOMAIN transactions /\ resp.tid \in DOMAIN sales

\* C15: a request takes exactly one connection of the pool, and its connection
\* goes back to the pool when the request ends, whether the handler returned,
\* raised an HTTPException or raised anything else; a request that ended by an
\* exception leaves the committed stock, headers and Sales as they were.
C15_ConnectionReleasedOnEveryExit ==
    [][\A r \in Conns :
          /\ (conns[r].pc = "idle" /\ conns'[r].pc # "idle")
                => \A q \in Conns \ {r} : conns'[q] = conns[q]
          /\ (Finished(conns[r]) /\ conns'[r] # conns[r])
                => /\ conns'[r] = IdleConn
                   /\ conns[r].pc = "fail"
                         => stock' = stock /\ transactions' = transactions /\ sales' = sales]_vars

\* a request that raised an unexpected exception after it wrote stock is about
\* to leave its connection, after an earlier request has committed and left
C15_Witness ==
    \E r \in Conns :
       /\ conns[r].pc = "fail" /\ conns[r].status = 500
       /\ \E p \in Products : p \in DOMAIN conns[r].w_stock /\ conns[r].w_stock[p] # stock[p]
       /\ DOMAIN transactions # {}

\* C16: a logout that succeeds deletes the token presented and nothing else:
\* its value no longer validates, and does not come back unless a login issues
\* it again; every other token, of the same user or another, is stored as
\* before and validates exactly as before the logout.
C16_LogoutDeletesOnlyPresentedToken ==
    [][/\ (resp'.op = "logout" /\ resp'.status = 204)
             => /\ \E t \in tokens : t.value = resp'.token /\ t.user_id = resp'.user
                /\ tokens' = {t \in tokens : t.value # resp'.token}
                /\ ValidTokens(Db', resp'.token) = {}
                /\ \A v \in Values \ {resp'.token} : ValidTokens(Db', v) = ValidTokens(Db, v)
       /\ \A v \in Values :
             ((\A t \in tokens : t.value # v) /\ (\E t \in tokens' : t.value = v))
                => resp'.op = "login" /\ resp'.status = 201]_vars

\* after a logout the bearer still holds another valid token, and so does
\* another user
C16_Witness ==
    /\ resp.op = "logout" /\ resp.status = 204
    /\ \E t \in tokens : t.user_id = resp.user /\ t.expires > now
    /\ \E t \in tokens : t.user_id # resp.user /\ t.expires > now

\* C17: after an update_transaction that succeeds, forced or not, the Sales of
\* the transaction are the line items of the request, in order, and none of
\* the Sales it had before; its event and its payment method are those of the
\* request where the request gives them and the previous ones where it does not.
C17_UpdateReplacesSalesAndCoalescesHeader ==
    \A req \in UpdateRequests \cup LedgerUpdates :
       LET a == After(req, Db)
       IN a.resp.status = 200 =>
             /\ req.sales # None
             /\ req.tid \in DOMAIN transactions /\ req.tid \in DOMAIN a.transactions
             /\ (IF req.tid \in DOMAIN a.sales THEN a.sales[req.tid] ELSE <<>>)
                   = [k \in 1..Len(req.sales[1]) |-> Resolved(req.sales[1][k])]
             /\ a.transactions[req.tid].event_id
                   = (IF req.event_id = None THEN transactions[req.tid].event_id
                      ELSE req.event_id)
             /\ a.transactions[req.tid].payment_method
                   = (IF req.payment_method = None THEN transactions[req.tid].payment_method
                      ELSE req.payment_method[1])
             /\ a.transactions[req.tid].user_id = transactions[req.tid].user_id

\* a forced update that gave an event and a payment method has replaced Sales
\* by other line items
C17_Witness ==
    /\ resp.op = "update" /\ resp.status = 200 /\ resp.flag
    /\ resp.removed > 0 /\ ~resp.same
    /\ resp.body # None /\ resp.body[1].payment_method = "Card"
    /\ resp.body[1].event = Some(1)
    /\ Len(resp.body[1].sales) = 1

\* C18: a list request with any subset of the filters start, finish, user_id,
\* event_id and payment_method, two or more together included, answers with
\* exactly the transactions that satisfy every filter supplied.
C18_ListReturnsTransactionsMatchingAllFilters ==
    \A q \in TransactionQuery :
       LET r == ListOutcome(GoodToken, q, Db)
       IN /\ r.status = 200
          /\ r.body = Some({t \in DOMAIN transactions :
                              \A f \in Supplied(q) : Matches(q, f, transactions[t])})

\* the request carries a line item whose amount is not positive
HasNonPositive(req) ==
    req.sales # None /\ \E k \in 1..Len(req.sales[1]) : req.sales[1][k].amount <= 0

C20_ConcurrentLoginsOvershootByOne ==
    /\ \A u \in Users : CountTokens(Db, u) <= (TokenLimit + 1) + (NumConns - 1)
    /\ \A r \in Conns : conns[r].pc = "done" => conns[r].i <= TokenLimit

\* two logins of a user that both read the count at the limit have both stored
\* their token
C20_Witness ==
    \E u \in Users : CountTokens(Db, u) = TokenLimit + NumConns

\* C21: a create_transaction whose line items all name products with enough
\* stock, so that it succeeds without an event, but whose event id references
\* no event is answered 404, not found; the stock of every product is what it
\* was before the request, and no header and no Sale is stored.
C21_CreateWithMissingEventIsNotFound ==
    \A req \in CreateRequests :
       (/\ req.event_id = Some(MissingEvent)
        /\ Len(req.sales[1]) > 0
        /\ After([req EXCEPT !.event_id = None], Db).resp.status = 201)
          => LET a == After(req, Db)
             IN /\ a.resp.status = 404
                /\ a.stock = stock /\ a.transactions = transactions /\ a.sales = sales

\* the part of C21 the handler keeps: such a request fails at the header
\* insert and leaves stock, headers and Sales as they were
C21_MissingEventRollsBack ==
    \A req \in CreateRequests :
       (/\ req.event_id = Some(MissingEvent)
        /\ Len(req.sales[1]) > 0
        /\ After([req EXCEPT !.event_id = None], Db).resp.status = 201)
          => LET a == After(req, Db)
             IN /\ a.resp.status >= 400 /\ a.resp.stmt = "c_hdr"
                /\ a.stock = stock /\ a.transactions = transactions /\ a.sales = sales

\* units of product p in the committed Sales of the transactions in ids
RECURSIVE Recorded(_, _)
Recorded(ids, p) ==
    IF ids = {} THEN 0
    ELSE LET t == CHOOSE x \in ids : TRUE
         IN Qty(sales[t], p) + Recorded(ids \ {t}, p)

\* C22: starting with no Sales and with only creates, updates that are not
\* forced and deletes that return products, in every committed state the stock
\* of each product plus the amounts of all Sales recorded against it equals the
\* product's initial stock, whether the requests before it succeeded or failed.
C22_StockPlusSalesIsInitialStock ==
    \A p \in Products : stock[p] + Recorded(DOMAIN sales, p) = MaxStock

\* a committed transaction holds the whole initial stock of a product, and
\* none of another
C22_Witness ==
    \E t \in DOMAIN sales :
       \E p, q \in Products :
          /\ stock[p] = 0 /\ Qty(sales[t], p) = MaxStock
          /\ stock[q] = MaxStock /\ Qty(sales[t], q) = 0

\* C23: delete_transaction answers 404 only when no transaction has the given
\* id; for every stored transaction, one with no Sales included, it succeeds
\* and removes the header.
C23_DeleteNotFoundOnlyWhenAbsent ==
    \A req \in DeleteRequests :
       Validates(req.token) =>
          LET a == After(req, Db)
          IN /\ a.resp.status = 404 => req.tid \notin DOMAIN transactions
             /\ req.tid \in DOMAIN transactions
                   => a.resp.status = 204 /\ req.tid \notin DOMAIN a.transactions
====
